---- MODULE Spec2Model ----
(***************************************************************************)
(* Model of builder/qemu/step_run.go: the qemu builder's stepRun step.     *)
(*                                                                         *)
(*   Run      announces, synthesizes the qemu command line                 *)
(*            (getCommandArgs -> processArgs), starts qemu via the driver  *)
(*   Cleanup  asks the driver to stop qemu                                 *)
(*                                                                         *)
(* Strings are TLA+ strings; slices are sequences; Go maps are functions   *)
(* whose DOMAIN is the key set.  Iteration over a Go map has no specified  *)
(* order: the flattening loop takes the order as a nondeterministic choice.*)
(***************************************************************************)
EXTENDS Integers, Sequences, FiniteSets, TLC

VARIABLES
    config,     \* *Config read through state.Get("config")
    bag,        \* the other entries of the multistep.StateBag
    driver,     \* how the Driver collaborator will answer (nil or an error)
    pc,         \* "idle" | "synth" | "ran" | "cleaned"
    result,     \* what getCommandArgs returned (command, err of Run)
    action,     \* the multistep.StepAction Run returned
    ui,         \* the calls made on packer.Ui, in order
    logs,       \* the lines written with log.Println, in order
    qemuCalls,  \* the argument lists driver.Qemu was called with, in order
    stopCalls   \* how many times driver.Stop was called

vars ==
    <<config, bag, driver, pc, result, action, ui, logs, qemuCalls, stopCalls>>

(***************************************************************************)
(* Bounds of the model.                                                    *)
(***************************************************************************)
\* rows that render before the row that fails, in the lifecycle specification
MaxGoodRows == 1

(***************************************************************************)
(* Values.                                                                 *)
(***************************************************************************)
\* a nil error
NoErr == "<nil>"
\* the absent "floppy_path" entry of the state bag (GetOk returns !ok)
NoFloppy == "<absent>"

\* the fields of stepRun
BootDrive == "once=d"
Message == "Starting the virtual machine..."

\* the keys getCommandArgs may put in defaultArgs
DefaultFlagKeys ==
    {"-display", "-name", "-machine", "-netdev", "-device", "-drive",
     "-cdrom", "-boot", "-m", "-vnc", "-fda"}
\* the switches a rendered override row may start with in this model
OverrideFlagKeys == {"-device", "-m", "-snapshot"}
FlagUniverse == DefaultFlagKeys \cup OverrideFlagKeys

(***************************************************************************)
(* Number formatting: fmt's %d and %v of a uint.                           *)
(***************************************************************************)
Digits == <<"0", "1", "2", "3", "4", "5", "6", "7", "8", "9">>

\* decimal text of a natural number
RECURSIVE FormatNat(_)
FormatNat(n) ==
    IF n < 10 THEN Digits[n + 1]
    ELSE FormatNat(n \div 10) \o Digits[(n % 10) + 1]

\* Go's uint on the 64-bit builds packer ships: UintLimbs limbs of LimbBase,
\* least significant first, so that wrap-around is computed, not assumed.
UintLimbs == 4
LimbBase == 65536
\* the offset subtracted from the discovered VNC port
VncBase == 5900

RECURSIVE ToLimbsFrom(_, _)
ToLimbsFrom(n, count) ==
    IF count = 0 THEN <<>>
    ELSE <<n % LimbBase>> \o ToLimbsFrom(n \div LimbBase, count - 1)

ToUint(n) == ToLimbsFrom(n, UintLimbs)

\* a - b on uints, modulo LimbBase^UintLimbs (the borrow out of the top limb
\* is dropped, which is the wrap-around)
RECURSIVE SubLimbsFrom(_, _, _, _)
SubLimbsFrom(a, b, i, borrow) ==
    IF i > Len(a) THEN <<>>
    ELSE LET d == a[i] - b[i] - borrow
         IN  IF d < 0
             THEN <<d + LimbBase>> \o SubLimbsFrom(a, b, i + 1, 1)
             ELSE <<d>> \o SubLimbsFrom(a, b, i + 1, 0)

UintSub(a, b) == SubLimbsFrom(a, b, 1, 0)

UintIsZero(a) == \A i \in 1..Len(a) : a[i] = 0

\* long division of a uint by 10, most significant limb first:
\* [quot |-> limbs, rem |-> 0..9]
RECURSIVE DivTenFrom(_, _, _)
DivTenFrom(a, i, rem) ==
    IF i = 0 THEN [quot |-> <<>>, rem |-> rem]
    ELSE LET cur == rem * LimbBase + a[i]
             rest == DivTenFrom(a, i - 1, cur % 10)
         IN  [quot |-> rest.quot \o <<cur \div 10>>, rem |-> rest.rem]

UintDivTen(a) == DivTenFrom(a, Len(a), 0)

\* decimal text of a uint (%d)
RECURSIVE FormatUintDigits(_)
FormatUintDigits(a) ==
    IF UintIsZero(a) THEN ""
    ELSE LET qr == UintDivTen(a)
         IN  FormatUintDigits(qr.quot) \o Digits[qr.rem + 1]

FormatUint(a) == IF UintIsZero(a) THEN "0" ELSE FormatUintDigits(a)

(***************************************************************************)
(* Library functions on the inputs of the model.                           *)
(***************************************************************************)
\* strings.ToLower on the formats of the model
ToLower(s) ==
    CASE s = "QCOW2" -> "qcow2"
      [] s = "RAW" -> "raw"
      [] OTHER -> s

\* filepath.Join of two clean elements: empty elements are ignored
JoinPath(a, b) ==
    IF a = "" THEN b
    ELSE IF b = "" THEN a
    ELSE a \o "/" \o b

\* strings.Join(parts[from:], "")
RECURSIVE JoinFrom(_, _)
JoinFrom(parts, from) ==
    IF from > Len(parts) THEN ""
    ELSE parts[from] \o JoinFrom(parts, from + 1)

(***************************************************************************)
(* interpolate.Render: the template engine, a collaborator.  A fragment    *)
(* without an action renders to itself; an action on a field of            *)
(* qemuArgsTemplateData renders to the field; an action on an unknown      *)
(* field is an error; an action inside other text renders to the text with *)
(* the field in place of the action.                                       *)
(***************************************************************************)
qemuArgsTemplateData(cfg, b) ==
    [HTTPIP |-> "10.0.2.2",
     HTTPPort |-> b.http_port,
     HTTPDir |-> cfg.HTTPDir,
     OutputDir |-> cfg.OutputDir,
     Name |-> cfg.VMName]

RenderErr(frag) == "template: can't evaluate " \o frag

Render(frag, data) ==
    CASE frag = "{{ .Name }}" -> [val |-> data.Name, err |-> NoErr]
      [] frag = "{{ .HTTPDir }}" -> [val |-> data.HTTPDir, err |-> NoErr]
      [] frag = "{{ .OutputDir }}" -> [val |-> data.OutputDir, err |-> NoErr]
      [] frag = "{{ .HTTPIP }}" -> [val |-> data.HTTPIP, err |-> NoErr]
      [] frag = "{{ .HTTPPort }}" ->
            [val |-> FormatNat(data.HTTPPort), err |-> NoErr]
      [] frag = ",mac={{ .Name }}" ->
            [val |-> ",mac=" \o data.Name, err |-> NoErr]
      [] frag = "{{ .Bad }}" -> [val |-> "", err |-> RenderErr(frag)]
      [] frag = "{{ .Nope }}" -> [val |-> "", err |-> RenderErr(frag)]
      [] OTHER -> [val |-> frag, err |-> NoErr]

(***************************************************************************)
(* processArgs: render every fragment of every row.                        *)
(***************************************************************************)
\* RenderParms testing err after the loop over the row, not inside it: a
\* later fragment overwrites the error of an earlier one
RECURSIVE RenderParmsLateCheck(_, _, _)
RenderParmsLateCheck(rowArgs, i, data) ==
    IF i > Len(rowArgs) THEN [parms |-> <<>>, err |-> NoErr]
    ELSE LET r == Render(rowArgs[i], data)
             rest == RenderParmsLateCheck(rowArgs, i + 1, data)
         IN  [parms |-> <<r.val>> \o rest.parms,
              err |-> IF i = Len(rowArgs) THEN r.err ELSE rest.err]

\* the inner loop over one row, from fragment i on: [parms, err]; it stops
\* at the first fragment whose rendering fails
RECURSIVE RenderParms(_, _, _)
RenderParms(rowArgs, i, data) ==
    IF i > Len(rowArgs) THEN [parms |-> <<>>, err |-> NoErr]
    ELSE LET r == Render(rowArgs[i], data)
         IN  IF r.err # NoErr THEN [parms |-> <<>>, err |-> r.err]
             ELSE LET rest == RenderParms(rowArgs, i + 1, data)
                  IN  IF rest.err # NoErr THEN rest
                      ELSE [parms |-> <<r.val>> \o rest.parms, err |-> NoErr]

\* the outer loop, from row argsIdx on: [rows, isNil, err]
RECURSIVE ProcessRows(_, _, _)
ProcessRows(args, argsIdx, data) ==
    IF argsIdx > Len(args) THEN [rows |-> <<>>, isNil |-> FALSE, err |-> NoErr]
    ELSE LET p == RenderParms(args[argsIdx], 1, data)
         IN  IF p.err # NoErr
             THEN [rows |-> <<>>, isNil |-> TRUE, err |-> p.err]
             ELSE LET rest == ProcessRows(args, argsIdx + 1, data)
                  IN  IF rest.err # NoErr THEN rest
                      ELSE [rows |-> <<p.parms>> \o rest.rows,
                            isNil |-> FALSE, err |-> NoErr]

\* processArgs(args, ctx): the rendered rows, or (nil, err).  A nil args and
\* an empty args both give an empty, non-nil result.
processArgs(args, data) == ProcessRows(args, 1, data)

(***************************************************************************)
(* getCommandArgs, part 1: the default arguments.                          *)
(***************************************************************************)
\* m[k] = v of a Go map
Put(m, k, v) == (k :> v) @@ m

EmptyMap == [k \in {} |-> ""]

HeadlessWarning ==
    "WARNING: The VM will be started in headless mode, as configured.\n"
    \o "In headless mode, errors during the boot sequence or OS setup\n"
    \o "won't be easily visible. Use at your own discretion."

NoAccelWarning ==
    "WARNING: The VM will be started with no hardware acceleration.\n"
    \o "The installation may take considerably longer to finish.\n"

NoFloppyNote == "Qemu Builder has no floppy files, not attaching a floppy."

OverridingNote == "Overriding defaults Qemu arguments with QemuArgs..."

UiCall(kind, text) == [kind |-> kind, text |-> text]

\* vnc := fmt.Sprintf("0.0.0.0:%d", vncPort-5900), on uints
vncAddress(vncPort) ==
    "0.0.0.0:" \o FormatUint(UintSub(ToUint(vncPort), ToUint(VncBase)))

\* imgPath := filepath.Join(OutputDir, "<vmName>.<lower(Format)>")
imgPath(cfg) ==
    JoinPath(cfg.OutputDir, cfg.VMName \o "." \o ToLower(cfg.Format))

\* defaultArgs as it stands when the override processing starts
defaultArgs(bootDrive, cfg, b) ==
    LET d0 == IF cfg.Headless THEN EmptyMap
              ELSE Put(EmptyMap, "-display", "sdl")
        d1 == Put(d0, "-name", cfg.VMName)
        d2 == Put(d1, "-machine", "type=" \o cfg.MachineType)
        d3 == Put(d2, "-netdev",
                  "user,id=user.0,hostfwd=tcp::"
                  \o FormatNat(b.sshHostPort) \o "-:22")
        d4 == Put(d3, "-device", cfg.NetDevice \o ",netdev=user.0")
        d5 == Put(d4, "-drive",
                  "file=" \o imgPath(cfg) \o ",if=" \o cfg.DiskInterface
                  \o ",cache=" \o cfg.DiskCache
                  \o ",discard=" \o cfg.DiskDiscard)
        d6 == IF ~cfg.DiskImage THEN Put(d5, "-cdrom", b.iso_path) ELSE d5
        d7 == Put(d6, "-boot", bootDrive)
        d8 == Put(d7, "-m", "512M")
        d9 == Put(d8, "-vnc", vncAddress(b.vnc_port))
        d10 == IF cfg.Accelerator # "none"
               THEN Put(d9, "-machine",
                        d9["-machine"] \o ",accel=" \o cfg.Accelerator)
               ELSE d9
    IN  IF b.floppy_path # NoFloppy THEN Put(d10, "-fda", b.floppy_path)
        ELSE d10

\* the ui.Message calls made while the defaults are built
defaultsUi(cfg) ==
    (IF cfg.Headless THEN <<UiCall("message", HeadlessWarning)>> ELSE <<>>)
    \o (IF cfg.Accelerator = "none"
        THEN <<UiCall("message", NoAccelWarning)>> ELSE <<>>)

(***************************************************************************)
(* getCommandArgs, part 2: overrides, backfill, flattening.                *)
(***************************************************************************)
\* IngestRow putting the new value in front of the key's bucket
IngestRowPrepend(inArgs, qemuArgs) ==
    LET key == qemuArgs[1]
        val == JoinFrom(qemuArgs, 2)
        registered == IF key \in DOMAIN inArgs THEN inArgs
                      ELSE Put(inArgs, key, <<>>)
    IN  IF Len(val) > 0
        THEN Put(registered, key, <<val>> \o registered[key])
        ELSE registered

\* IngestRow without the len(val) > 0 test
IngestRowKeepEmpty(inArgs, qemuArgs) ==
    LET key == qemuArgs[1]
        val == JoinFrom(qemuArgs, 2)
        registered == IF key \in DOMAIN inArgs THEN inArgs
                      ELSE Put(inArgs, key, <<>>)
    IN  Put(registered, key, Append(registered[key], val))

\* one turn of the loop over newQemuArgs; a row holds its key at least
\* (qemuArgs[0] of an empty row is out of range in the code)
IngestRow(inArgs, qemuArgs) ==
    LET key == qemuArgs[1]
        val == JoinFrom(qemuArgs, 2)
        registered == IF key \in DOMAIN inArgs THEN inArgs
                      ELSE Put(inArgs, key, <<>>)
    IN  IF Len(val) > 0
        THEN Put(registered, key, Append(registered[key], val))
        ELSE registered

\* the loop over newQemuArgs, from row i on
RECURSIVE IngestFrom(_, _, _)
IngestFrom(inArgs, newQemuArgs, i) ==
    IF i > Len(newQemuArgs) THEN inArgs
    ELSE IngestFrom(IngestRow(inArgs, newQemuArgs[i]), newQemuArgs, i + 1)

\* the loop with inArgs made anew in every turn: only the last row is kept
IngestRowsFreshMap(newQemuArgs) ==
    IF newQemuArgs = <<>> THEN EmptyMap
    ELSE IngestRow(EmptyMap, newQemuArgs[Len(newQemuArgs)])

IngestRows(newQemuArgs) == IngestFrom(EmptyMap, newQemuArgs, 1)

\* Backfill testing len(inArgs[key]) == 0 where the code tests !ok
BackfillWhenEmpty(inArgs, defaults) ==
    [key \in DOMAIN inArgs \cup DOMAIN defaults |->
        IF key \in DOMAIN inArgs /\ (Len(inArgs[key]) > 0 \/ key \notin DOMAIN defaults)
        THEN inArgs[key]
        ELSE <<defaults[key]>>]

\* Backfill done only when there is no override at all
BackfillOnlyWithoutOverrides(inArgs, defaults) ==
    IF DOMAIN inArgs # {} THEN inArgs
    ELSE [key \in DOMAIN defaults |-> <<defaults[key]>>]

\* "get any remaining missing default args from the default settings"
Backfill(inArgs, defaults) ==
    [key \in DOMAIN inArgs \cup DOMAIN defaults |->
        IF key \in DOMAIN inArgs THEN inArgs[key] ELSE <<defaults[key]>>]

Range(seq) == {seq[i] : i \in 1..Len(seq)}

\* one arrangement of the elements of a set
RECURSIVE SomeOrder(_)
SomeOrder(S) ==
    IF S = {} THEN <<>>
    ELSE LET x == CHOOSE y \in S : TRUE
         IN  <<x>> \o SomeOrder(S \ {x})

RECURSIVE Factorial(_)
Factorial(n) == IF n = 0 THEN 1 ELSE n * Factorial(n - 1)

\* the arrangement number nth (from 0) of the elements of seq: the first
\* element is chosen among Len(seq), the next among those left, and so on
RECURSIVE NthOrder(_, _)
NthOrder(seq, nth) ==
    IF seq = <<>> THEN <<>>
    ELSE LET rest == Factorial(Len(seq) - 1)
             idx == (nth \div rest) + 1
         IN  <<seq[idx]>>
             \o NthOrder(SubSeq(seq, 1, idx - 1)
                         \o SubSeq(seq, idx + 1, Len(seq)), nth % rest)

\* the orders in which one range-loop may visit the keys of a map: Go leaves
\* the order unspecified, so every arrangement of the keys is one
MapOrders(keys) ==
    LET seq == SomeOrder(keys)
    IN  {NthOrder(seq, nth) : nth \in 0..(Factorial(Len(seq)) - 1)}

\* FlattenKey without the else branch
FlattenKeyNoBare(key, values) ==
    LET RECURSIVE Pairs(_)
        Pairs(idx) == IF idx > Len(values) THEN <<>>
                      ELSE <<key, values[idx]>> \o Pairs(idx + 1)
    IN  Pairs(1)

\* what the flattening loop appends for one key
FlattenKey(key, values) ==
    IF Len(values) > 0
    THEN LET RECURSIVE Pairs(_)
             Pairs(idx) == IF idx > Len(values) THEN <<>>
                           ELSE <<key, values[idx]>> \o Pairs(idx + 1)
         IN  Pairs(1)
    ELSE <<key>>

\* "Flatten to array of strings", visiting the keys in the given order
RECURSIVE FlattenFrom(_, _, _)
FlattenFrom(inArgs, order, i) ==
    IF i > Len(order) THEN <<>>
    ELSE FlattenKey(order[i], inArgs[order[i]])
         \o FlattenFrom(inArgs, order, i + 1)

Flatten(inArgs, order) == FlattenFrom(inArgs, order, 1)

\* getCommandArgs up to the flattening loop: [inArgs, err] and the calls made
\* on the ui and on the log
mergeArgs(bootDrive, cfg, b) ==
    LET defaults == defaultArgs(bootDrive, cfg, b)
        floppyLog == IF b.floppy_path = NoFloppy THEN <<NoFloppyNote>> ELSE <<>>
        overriding == Len(cfg.QemuArgs) > 0
        newQemuArgs == IF overriding
                       THEN processArgs(cfg.QemuArgs, qemuArgsTemplateData(cfg, b))
                       ELSE [rows |-> <<>>, isNil |-> FALSE, err |-> NoErr]
        said == defaultsUi(cfg)
                \o (IF overriding THEN <<UiCall("say", OverridingNote)>>
                    ELSE <<>>)
    IN  IF newQemuArgs.err # NoErr
        THEN [inArgs |-> EmptyMap, err |-> newQemuArgs.err,
              ui |-> said, log |-> floppyLog]
        ELSE [inArgs |-> Backfill(IngestRows(newQemuArgs.rows), defaults),
              err |-> NoErr, ui |-> said, log |-> floppyLog]

\* the result of getCommandArgs, merged being what it computed before the
\* flattening loop and order the order in which that loop visits the keys
flattenArgs(merged, order) ==
    IF merged.err # NoErr
    THEN [args |-> <<>>, argsNil |-> TRUE, err |-> merged.err,
          ui |-> merged.ui, log |-> merged.log]
    ELSE [args |-> Flatten(merged.inArgs, order), argsNil |-> FALSE,
          err |-> NoErr, ui |-> merged.ui, log |-> merged.log]

\* getCommandArgs(bootDrive, state): [args, argsNil, err] and the calls it
\* made on the ui and on the log
getCommandArgs(bootDrive, cfg, b, order) ==
    flattenArgs(mergeArgs(bootDrive, cfg, b), order)

(***************************************************************************)
(* The step: Run and Cleanup, as the multistep runner calls them (Run      *)
(* once, then Cleanup once, whatever Run returned).                        *)
(***************************************************************************)
NoResult == [args |-> <<>>, argsNil |-> TRUE, err |-> NoErr]

Returned(r) == [args |-> r.args, argsNil |-> r.argsNil, err |-> r.err]

\* Run without the return after a failed getCommandArgs
RunNoReturn ==
    /\ pc = "idle"
    /\ \E merged \in {mergeArgs(BootDrive, config, bag)} :
       \E order \in MapOrders(DOMAIN merged.inArgs) :
        LET r == flattenArgs(merged, order)
            said == <<UiCall("say", Message)>> \o r.ui
                    \o (IF r.err # NoErr
                        THEN <<UiCall("error",
                                      "Error processing QemuArggs: " \o r.err)>>
                        ELSE <<>>)
        IN  /\ result' = Returned(r)
            /\ logs' = logs \o r.log
            /\ qemuCalls' = Append(qemuCalls, r.args)
            /\ IF driver.qemuErr # NoErr
               THEN /\ ui' = ui \o said \o
                        <<UiCall("error",
                                 "Error launching VM: " \o driver.qemuErr)>>
                    /\ action' = "halt"
               ELSE /\ ui' = ui \o said
                    /\ action' = "continue"
    /\ pc' = "ran"
    /\ UNCHANGED <<config, bag, driver, stopCalls>>

\* func (s *stepRun) Run(state) multistep.StepAction
Run ==
    /\ pc = "idle"
    /\ \E merged \in {mergeArgs(BootDrive, config, bag)} :
       \E order \in MapOrders(DOMAIN merged.inArgs) :
        LET r == flattenArgs(merged, order)
            said == <<UiCall("say", Message)>> \o r.ui
        IN  /\ result' = Returned(r)
            /\ logs' = logs \o r.log
            /\ IF r.err # NoErr
               THEN /\ ui' = ui \o said \o
                        <<UiCall("error",
                                 "Error processing QemuArggs: " \o r.err)>>
                    /\ action' = "halt"
                    /\ UNCHANGED qemuCalls
               ELSE /\ qemuCalls' = Append(qemuCalls, r.args)
                    /\ IF driver.qemuErr # NoErr
                       THEN /\ ui' = ui \o said \o
                                <<UiCall("error",
                                         "Error launching VM: "
                                         \o driver.qemuErr)>>
                            /\ action' = "halt"
                       ELSE /\ ui' = ui \o said
                            /\ action' = "continue"
    /\ pc' = "ran"
    /\ UNCHANGED <<config, bag, driver, stopCalls>>

\* Cleanup stopping the driver only when Run started qemu
CleanupOnlyIfStarted ==
    /\ pc = "ran"
    /\ IF qemuCalls # <<>>
       THEN /\ stopCalls' = stopCalls + 1
            /\ ui' = IF driver.stopErr # NoErr
                     THEN Append(ui, UiCall("error",
                                            "Error shutting down VM: "
                                            \o driver.stopErr))
                     ELSE ui
       ELSE UNCHANGED <<stopCalls, ui>>
    /\ pc' = "cleaned"
    /\ UNCHANGED <<config, bag, driver, result, action, logs, qemuCalls>>

\* func (s *stepRun) Cleanup(state)
Cleanup ==
    /\ pc = "ran"
    /\ stopCalls' = stopCalls + 1
    /\ ui' = IF driver.stopErr # NoErr
             THEN Append(ui, UiCall("error",
                                    "Error shutting down VM: " \o driver.stopErr))
             ELSE ui
    /\ pc' = "cleaned"
    /\ UNCHANGED <<config, bag, driver, result, action, logs, qemuCalls>>

\* getCommandArgs applied on its own to the inputs of the state
Synthesize ==
    /\ pc = "idle"
    /\ \E merged \in {mergeArgs(BootDrive, config, bag)} :
       \E order \in MapOrders(DOMAIN merged.inArgs) :
        LET r == flattenArgs(merged, order)
        IN  /\ result' = Returned(r)
            /\ ui' = ui \o r.ui
            /\ logs' = logs \o r.log
    /\ pc' = "synth"
    /\ UNCHANGED <<config, bag, driver, action, qemuCalls, stopCalls>>

(***************************************************************************)
(* Inputs.                                                                 *)
(***************************************************************************)
\* the sequences over S of length at most n
SeqsUpTo(S, n) == UNION {[1..m -> S] : m \in 0..n}

ConfigOf(headless, diskImage, accel, format, qemuArgs) ==
    [VMName |-> "packer-vm",
     OutputDir |-> "output-vm",
     Format |-> format,
     Headless |-> headless,
     MachineType |-> "pc",
     NetDevice |-> "virtio-net",
     DiskInterface |-> "virtio",
     DiskCache |-> "writeback",
     DiskDiscard |-> "ignore",
     DiskImage |-> diskImage,
     Accelerator |-> accel,
     HTTPDir |-> "",
     QemuArgs |-> qemuArgs]

BagOf(vncPort, floppy) ==
    [iso_path |-> "packer_cache/install.iso",
     vnc_port |-> vncPort,
     sshHostPort |-> 2222,
     http_port |-> 8080,
     floppy_path |-> floppy]

DriverOk == [qemuErr |-> NoErr, stopErr |-> NoErr]

InitRest ==
    /\ pc = "idle"
    /\ result = NoResult
    /\ action = "none"
    /\ ui = <<>>
    /\ logs = <<>>
    /\ qemuCalls = <<>>
    /\ stopCalls = 0

\* Every input below is configured headless, from a disk image and without
\* a floppy: defaultArgs then has its 8 unconditional keys, and the flattening
\* loop 8! orders (9! with one more key from the overrides).

\* the lifecycle: a driver that may fail, and overrides that render or fail
\* to render in the first, a middle or the last fragment of a row, or in two
\* fragments, after at most MaxGoodRows rows that render
GoodRows ==
    {<<"-device">>,
     <<"-device", "e1000", ",mac={{ .Name }}">>}
BadRows ==
    {<<"{{ .Bad }}", "e1000", "{{ .Name }}">>,
     <<"-device", "{{ .Bad }}", "e1000">>,
     <<"-device", "e1000", "{{ .Nope }}">>,
     <<"-device", "{{ .Nope }}", "{{ .Bad }}">>}
RunInputs ==
    {<<<<"-device", "e1000", ",mac={{ .Name }}">>>>}
    \cup {good \o <<bad>> : good \in SeqsUpTo(GoodRows, MaxGoodRows),
                            bad \in BadRows}

Init ==
    /\ \E qemuArgs \in RunInputs :
          config = ConfigOf(TRUE, TRUE, "kvm", "qcow2", qemuArgs)
    /\ bag = BagOf(5947, NoFloppy)
    /\ driver \in [qemuErr : {NoErr, "exit status 1"},
                   stopErr : {NoErr, "os: process already finished"}]
    /\ InitRest

Next == Run \/ Cleanup

Spec == Init /\ [][Next]_vars

\* the merge: override lists with no row, with a key of the defaults once or
\* twice, with empty and non-empty rendered values, with two keys
MergeInputs ==
    {<<>>,
     <<<<"-device", "{{ .HTTPDir }}">>>>,
     <<<<"-device", "e1000">>, <<"-device", "{{ .Name }}">>>>,
     <<<<"-device">>, <<"-device", "{{ .HTTPDir }}">>>>,
     <<<<"-device", "e1000,mac=", "{{ .HTTPIP }}">>, <<"-device">>>>,
     <<<<"-m", "1024M">>>>,
     <<<<"-m", "{{ .HTTPDir }}", "1024M">>, <<"-device", "e1000">>>>}

InitMerge ==
    /\ \E qemuArgs \in MergeInputs :
          config = ConfigOf(TRUE, TRUE, "kvm", "qcow2", qemuArgs)
    /\ bag = BagOf(5947, NoFloppy)
    /\ driver = DriverOk
    /\ InitRest

NextMerge == Synthesize

SpecMerge == InitMerge /\ [][NextMerge]_vars

\* the union: no override at all, and a key only the overrides have beside
\* a key both have, the latter with two values
UnionInputs ==
    {<<>>,
     <<<<"-snapshot">>, <<"-device", "e1000">>, <<"-device", "{{ .Name }}">>>>}

InitUnion ==
    /\ \E qemuArgs \in UnionInputs :
          config = ConfigOf(TRUE, TRUE, "kvm", "qcow2", qemuArgs)
    /\ bag = BagOf(5947, NoFloppy)
    /\ driver = DriverOk
    /\ InitRest

SpecUnion == InitUnion /\ [][NextMerge]_vars

\* the defaults: discovered VNC ports around the offset, no override
VncPorts == {0, 5899, 5900, 5901, 5947}

InitDefaults ==
    /\ config = ConfigOf(TRUE, TRUE, "none", "RAW", <<>>)
    /\ \E vncPort \in VncPorts : bag = BagOf(vncPort, NoFloppy)
    /\ driver = DriverOk
    /\ InitRest

SpecDefaults == InitDefaults /\ [][NextMerge]_vars

(***************************************************************************)
(* Reading the inputs and the token sequence, for the properties below.    *)
(***************************************************************************)
\* getCommandArgs has returned a token sequence
Synthesized == pc # "idle" /\ result.err = NoErr /\ ~result.argsNil

TemplateData == qemuArgsTemplateData(config, bag)

\* the rendered value of an override row: its value fragments, concatenated
RECURSIVE RowValFrom(_, _)
RowValFrom(row, i) ==
    IF i > Len(row) THEN ""
    ELSE Render(row[i], TemplateData).val \o RowValFrom(row, i + 1)

\* the override list O as the merge is to read it: per row, the rendered key
\* and the rendered value
RenderedRows(O) ==
    [i \in 1..Len(O) |->
        [key |-> Render(O[i][1], TemplateData).val, val |-> RowValFrom(O[i], 2)]]

Overrides == RenderedRows(config.QemuArgs)

\* the keys of the rows
KeysOfRows(rows) == {rows[i].key : i \in 1..Len(rows)}

\* the non-empty values of the rows with key k, in row order
RECURSIVE ValsOfRowsFrom(_, _, _)
ValsOfRowsFrom(rows, k, i) ==
    IF i > Len(rows) THEN <<>>
    ELSE (IF rows[i].key = k /\ rows[i].val # "" THEN <<rows[i].val>>
          ELSE <<>>)
         \o ValsOfRowsFrom(rows, k, i + 1)

ValsOfRows(rows, k) == ValsOfRowsFrom(rows, k, 1)

\* the default map D of the state
Defaults == defaultArgs(BootDrive, config, bag)

\* where the token k stands in the token sequence
Positions(tokens, k) == {i \in 1..Len(tokens) : tokens[i] = k}

\* the token at i is followed by a value (a token that is not a switch)
HasValue(tokens, i) == i < Len(tokens) /\ tokens[i + 1] \notin FlagUniverse

\* the values that follow the occurrences of k, in token order
RECURSIVE ValuesFrom(_, _, _)
ValuesFrom(tokens, k, i) ==
    IF i > Len(tokens) THEN <<>>
    ELSE (IF tokens[i] = k /\ HasValue(tokens, i) THEN <<tokens[i + 1]>>
          ELSE <<>>)
         \o ValuesFrom(tokens, k, i + 1)

ValuesOf(tokens, k) == ValuesFrom(tokens, k, 1)

\* the occurrences of k that no value follows
BarePositions(tokens, k) ==
    {i \in Positions(tokens, k) : ~HasValue(tokens, i)}

\* the switches of the token sequence
FlagsOf(tokens) == Range(tokens) \cap FlagUniverse

\* the token sequence as a map from key to the ordered list of its values
BucketsOf(tokens) == [k \in FlagsOf(tokens) |-> ValuesOf(tokens, k)]

(***************************************************************************)
(* C1: a key that has at least one row in O never receives D's value: the  *)
(* values that follow it in the token sequence are values of its override  *)
(* rows only, and none at all when every such row renders to an empty      *)
(* value.                                                                  *)
(***************************************************************************)
C1_OverrideWins ==
    Synthesized =>
        LET rows == Overrides
            D == Defaults
            out == result.args
        IN  \A k \in KeysOfRows(rows) :
                LET own == Range(ValsOfRows(rows, k))
                IN  /\ Positions(out, k) # {}
                    /\ \A i \in Positions(out, k) :
                          HasValue(out, i) => out[i + 1] \in own
                    /\ (k \in DOMAIN D /\ D[k] \notin own)
                          => D[k] \notin Range(ValuesOf(out, k))

\* "-device" has a default, and its only override rows render to nothing
C1_Witness ==
    /\ Synthesized
    /\ "-device" \in KeysOfRows(Overrides)
    /\ "-device" \in DOMAIN Defaults
    /\ ValsOfRows(Overrides, "-device") = <<>>
    /\ \E i \in 1..Len(config.QemuArgs) :
          config.QemuArgs[i] = <<"-device", "{{ .HTTPDir }}">>

(***************************************************************************)
(* C2: every key of D that is the key of no row of O appears in the token  *)
(* sequence exactly once, immediately followed by D's value for it.        *)
(***************************************************************************)
C2_DefaultsBackfilled ==
    Synthesized =>
        LET D == Defaults
            out == result.args
        IN  \A k \in DOMAIN D \ KeysOfRows(Overrides) :
                /\ Cardinality(Positions(out, k)) = 1
                /\ ValuesOf(out, k) = <<D[k]>>

\* overrides are present, and "-device" is not among their keys
C2_Witness ==
    /\ Synthesized
    /\ KeysOfRows(Overrides) = {"-m"}
    /\ "-device" \in DOMAIN Defaults
    /\ "-device" \in Range(result.args)

(***************************************************************************)
(* C3: a key with N rows of non-empty value yields exactly N (key, value)  *)
(* token pairs, the values in the order of their rows.                     *)
(***************************************************************************)
C3_RepeatedKeysInOrder ==
    Synthesized =>
        LET rows == Overrides
            out == result.args
        IN  \A k \in KeysOfRows(rows) :
                LET own == ValsOfRows(rows, k)
                IN  Len(own) > 0 =>
                        /\ Cardinality(Positions(out, k)) = Len(own)
                        /\ BarePositions(out, k) = {}
                        /\ ValuesOf(out, k) = own

\* two rows of one key with different values
C3_Witness ==
    /\ Synthesized
    /\ Len(ValsOfRows(Overrides, "-device")) = 2
    /\ ValsOfRows(Overrides, "-device")[1] # ValsOfRows(Overrides, "-device")[2]
    /\ Len(ValuesOf(result.args, "-device")) = 2

(***************************************************************************)
(* C4: a key whose every row renders to an empty value yields exactly one  *)
(* bare token, however many rows, and is not backfilled from D.            *)
(***************************************************************************)
C4_EmptyOverrideIsBare ==
    Synthesized =>
        LET rows == Overrides
            out == result.args
        IN  \A k \in KeysOfRows(rows) :
                ValsOfRows(rows, k) = <<>> =>
                    /\ Cardinality(Positions(out, k)) = 1
                    /\ Cardinality(BarePositions(out, k)) = 1
                    /\ ValuesOf(out, k) = <<>>

\* two rows of "-device", both empty, and D has a value for "-device"
C4_Witness ==
    /\ Synthesized
    /\ Len(config.QemuArgs) = 2
    /\ KeysOfRows(Overrides) = {"-device"}
    /\ ValsOfRows(Overrides, "-device") = <<>>
    /\ "-device" \in DOMAIN Defaults
    /\ BarePositions(result.args, "-device") # {}

(***************************************************************************)
(* C5: the token sequence holds exactly the keys of O and of D: each key   *)
(* once per value of its bucket, each occurrence followed by that value,   *)
(* or once bare when the bucket is empty; and nothing else.                *)
(***************************************************************************)
\* the buckets the merge is to give: the override values of a key of O, D's
\* value for any other key of D
ExpectedBuckets(rows, D) ==
    [k \in KeysOfRows(rows) \cup DOMAIN D |->
        IF k \in KeysOfRows(rows) THEN ValsOfRows(rows, k) ELSE <<D[k]>>]

RECURSIVE SumOver(_, _)
SumOver(S, f) ==
    IF S = {} THEN 0
    ELSE LET x == CHOOSE y \in S : TRUE
         IN  f[x] + SumOver(S \ {x}, f)

C5_ExactlyTheUnion ==
    Synthesized =>
        \A D \in {Defaults} :
        \A rows \in {Overrides} :
        \A expected \in {ExpectedBuckets(rows, D)} :
        LET keys == DOMAIN expected
            out == result.args
        IN  /\ FlagsOf(out) = keys
            /\ \A k \in keys :
                  /\ ValuesOf(out, k) = expected[k]
                  /\ Cardinality(BarePositions(out, k)) =
                        (IF expected[k] = <<>> THEN 1 ELSE 0)
                  /\ Cardinality(Positions(out, k)) =
                        (IF expected[k] = <<>> THEN 1 ELSE Len(expected[k]))
            /\ Len(out) =
                  SumOver(keys, [k \in keys |->
                                    IF expected[k] = <<>> THEN 1
                                    ELSE 2 * Len(expected[k])])
            /\ config.QemuArgs = <<>> =>
                  BucketsOf(out) = [k \in DOMAIN D |-> <<D[k]>>]

\* a key only O has, a key both have, and keys only D has
C5_Witness ==
    /\ Synthesized
    /\ "-snapshot" \in KeysOfRows(Overrides)
    /\ Len(ValsOfRows(Overrides, "-device")) = 2
    /\ "-snapshot" \in FlagsOf(result.args)
    /\ "-m" \in FlagsOf(result.args)

(***************************************************************************)
(* C6: the order of the rows of O is insignificant for the merge: any two  *)
(* override lists that are permutations of each other give the same map    *)
(* from key to ordered list of values.                                     *)
(***************************************************************************)
\* O with its rows rearranged by f
Permuted(O, f) == [i \in 1..Len(O) |-> O[f[i]]]

\* the buckets getCommandArgs gives for the state's inputs with O as the
\* override list
BucketsFor(O) ==
    LET merged == mergeArgs(BootDrive, [config EXCEPT !.QemuArgs = O], bag)
    IN  BucketsOf(flattenArgs(merged, SomeOrder(DOMAIN merged.inArgs)).args)

\* the rows of O with rendered key k, in row order
RowsOfKey(O, k) ==
    SelectSeq(O, LAMBDA row : Render(row[1], TemplateData).val = k)

\* O2 keeps the rows of every key in the relative order they have in O
KeepsOrderWithinKeys(O, O2) ==
    \A k \in KeysOfRows(RenderedRows(O)) : RowsOfKey(O2, k) = RowsOfKey(O, k)

C6_AnyPermutation ==
    Synthesized =>
        LET O == config.QemuArgs
            own == BucketsOf(result.args)
        IN  \A f \in Permutations(1..Len(O)) : BucketsFor(Permuted(O, f)) = own

\* C6 as amended: the order of rows of different keys is insignificant; two
\* override lists that are permutations of each other and keep the rows of
\* every key in the same relative order give the same map from key to
\* ordered list of values.
C6_PermutationAcrossKeys ==
    Synthesized =>
        LET O == config.QemuArgs
            own == BucketsOf(result.args)
        IN  \A f \in Permutations(1..Len(O)) :
                KeepsOrderWithinKeys(O, Permuted(O, f)) =>
                    BucketsFor(Permuted(O, f)) = own

\* two rows of different keys, both with a value: swapping them is a
\* permutation the amended claim covers
C6_Witness ==
    /\ Synthesized
    /\ Len(config.QemuArgs) = 2
    /\ Overrides[1].key = "-m"
    /\ Overrides[2].key = "-device"
    /\ Overrides[1].val # ""
    /\ Overrides[2].val # ""
    /\ KeepsOrderWithinKeys(config.QemuArgs,
                            <<config.QemuArgs[2], config.QemuArgs[1]>>)

(***************************************************************************)
(* C7: when the rendering of any fragment of any row fails, processArgs    *)
(* returns the renderer's error and no rows, and getCommandArgs returns    *)
(* that error and no token sequence, whichever fragment fails.             *)
(***************************************************************************)
FailsAt(O, i, j) == Render(O[i][j], TemplateData).err # NoErr

FragmentFails(O) ==
    \E i \in 1..Len(O) : \E j \in 1..Len(O[i]) : FailsAt(O, i, j)

\* the error of the first fragment, in row then fragment order, that fails
FirstRenderErr(O) ==
    LET i == CHOOSE x \in 1..Len(O) :
                /\ \E j \in 1..Len(O[x]) : FailsAt(O, x, j)
                /\ \A y \in 1..(x - 1) : \A j \in 1..Len(O[y]) : ~FailsAt(O, y, j)
        j == CHOOSE x \in 1..Len(O[i]) :
                /\ FailsAt(O, i, x)
                /\ \A y \in 1..(x - 1) : ~FailsAt(O, i, y)
    IN  Render(O[i][j], TemplateData).err

C7_NoPartialResult ==
    pc # "idle" =>
        LET O == config.QemuArgs
            expanded == processArgs(O, TemplateData)
        IN  FragmentFails(O) =>
                /\ expanded.err = FirstRenderErr(O)
                /\ expanded.isNil
                /\ expanded.rows = <<>>
                /\ result.err = FirstRenderErr(O)
                /\ result.argsNil
                /\ result.args = <<>>

\* the first row renders, the middle fragment of the second row does not
C7_Witness ==
    /\ pc = "ran"
    /\ Len(config.QemuArgs) = 2
    /\ config.QemuArgs[1] = <<"-device", "e1000", ",mac={{ .Name }}">>
    /\ config.QemuArgs[2] = <<"-device", "{{ .Bad }}", "e1000">>
    /\ result.argsNil
    /\ result.err = RenderErr("{{ .Bad }}")

(***************************************************************************)
(* C8: Run returns halt exactly when the synthesis fails or the driver     *)
(* fails to start qemu, and continue otherwise; a failure is reported to   *)
(* the ui as exactly one error; the driver is asked to start qemu at most  *)
(* once, and never after a failed synthesis.                               *)
(***************************************************************************)
ErrorsIn(calls) == Len(SelectSeq(calls, LAMBDA c : c.kind = "error"))

C8_HaltExactlyOnFailure ==
    pc = "ran" =>
        LET synthFailed == FragmentFails(config.QemuArgs)
            startFailed == driver.qemuErr # NoErr
        IN  /\ action \in {"halt", "continue"}
            /\ action = "halt" <=> (synthFailed \/ startFailed)
            /\ action = "halt" => ErrorsIn(ui) = 1
            /\ Len(qemuCalls) <= 1
            /\ synthFailed => qemuCalls = <<>>
            /\ ~synthFailed => Len(qemuCalls) = 1

\* the synthesis succeeded and the driver failed to start qemu
C8_Witness ==
    /\ pc = "ran"
    /\ action = "halt"
    /\ ~FragmentFails(config.QemuArgs)
    /\ config.QemuArgs # <<>>
    /\ driver.qemuErr # NoErr
    /\ Len(qemuCalls) = 1
    /\ ErrorsIn(ui) = 1

(***************************************************************************)
(* C9: every Cleanup asks the driver to stop exactly once, whatever Run    *)
(* returned; a failure to stop adds one error to the ui and changes        *)
(* nothing else, and Cleanup always completes.                             *)
(***************************************************************************)
StopReport ==
    IF driver.stopErr # NoErr
    THEN <<UiCall("error", "Error shutting down VM: " \o driver.stopErr)>>
    ELSE <<>>

C9_CleanupStopsOnce ==
    /\ [](pc = "ran" => ENABLED Cleanup)
    /\ [][pc = "ran" =>
            /\ pc' = "cleaned"
            /\ stopCalls' = stopCalls + 1
            /\ ui' = ui \o StopReport
            /\ action' = action
            /\ result' = result
            /\ qemuCalls' = qemuCalls]_vars

\* Cleanup after a Run that halted before qemu was started, with a driver
\* that fails to stop
C9_Witness ==
    /\ pc = "cleaned"
    /\ action = "halt"
    /\ result.err # NoErr
    /\ qemuCalls = <<>>
    /\ driver.stopErr # NoErr
    /\ stopCalls = 1
    /\ ErrorsIn(ui) = 2

(***************************************************************************)
(* C10: for every discovered VNC port the default "-vnc" value is          *)
(* "0.0.0.0:" followed by the port minus 5900, also for a port below 5900. *)
(***************************************************************************)
\* decimal text of an integer
FormatInt(n) == IF n < 0 THEN "-" \o FormatNat(0 - n) ELSE FormatNat(n)

C10_VncIsPortMinusBase ==
    Synthesized =>
        ValuesOf(result.args, "-vnc") =
            <<"0.0.0.0:" \o FormatInt(bag.vnc_port - VncBase)>>

====
